---- MODULE Spec2Model ----
(***************************************************************************)
(* A model of dailycount.py: tornado request handlers over the App Engine  *)
(* datastore and memcache.  Every request is a process that advances one   *)
(* datastore / memcache / clock operation at a time, so that requests      *)
(* interleave exactly where the platform lets them.                        *)
(*                                                                         *)
(* Strings are sequences of one-character strings, so that strip and       *)
(* xhtml_escape are computed.  An optional value is <<>> (None) or <<v>>.  *)
(* Instants are seconds since an epoch, in UTC.                            *)
(***************************************************************************)
EXTENDS Integers, Sequences, FiniteSets, TLC

VARIABLES now, configs, itemTypes, countedItems, userOptions, memcache,
          pc, req, loc, resp, nreq

vars == <<now, configs, itemTypes, countedItems, userOptions, memcache,
          pc, req, loc, resp, nreq>>

datastore == <<configs, itemTypes, countedItems, userOptions>>

(***************************************************************************)
(* Bounds of the model.                                                    *)
(***************************************************************************)
\* requests started in one behaviour
MaxRequests == 2
\* item types that exist when the admin listing is exercised (SpecAdmin)
MaxAdminTypes == 102
\* requests started in one behaviour of the specifications that follow one
\* operation through its interleavings (SpecOptions and those after it)
MaxRaceRequests == 3

(***************************************************************************)
(* Strings and optional values.                                            *)
(***************************************************************************)
None == <<>>
Some(v) == <<v>>
IsNone(o) == o = <<>>
Val(o) == o[1]

Whitespace == {" "}

RECURSIVE LStrip(_)
LStrip(s) == IF s # <<>> /\ Head(s) \in Whitespace THEN LStrip(Tail(s)) ELSE s

RECURSIVE RStrip(_)
RStrip(s) ==
  IF s # <<>> /\ s[Len(s)] \in Whitespace THEN RStrip(SubSeq(s, 1, Len(s) - 1)) ELSE s

\* str.strip()
Strip(s) == RStrip(LStrip(s))

\* tornado.escape.xhtml_escape: xml.sax.saxutils.escape with the quote entity
EscapeChar(c) ==
  CASE c = "&" -> <<"&", "a", "m", "p", ";">>
    [] c = "<" -> <<"&", "l", "t", ";">>
    [] c = ">" -> <<"&", "g", "t", ";">>
    [] c = "\"" -> <<"&", "q", "u", "o", "t", ";">>
    [] OTHER -> <<c>>

RECURSIVE xhtml_escape(_)
xhtml_escape(s) == IF s = <<>> THEN <<>> ELSE EscapeChar(Head(s)) \o xhtml_escape(Tail(s))

\* RequestHandler.get_argument(name, default): the default when the parameter
\* is absent, else its value stripped (strip=True is tornado's default)
get_argument(param, default) == IF IsNone(param) THEN default ELSE Some(Strip(Val(param)))

(***************************************************************************)
(* Users (google.appengine.api.users).                                     *)
(***************************************************************************)
Users == {"alice", "root"}
Admins == {"root"}
NoUser == "anonymous"

\* BaseHandler.get_current_user
current_user(r) == r.user
is_current_user_admin(r) == r.user \in Admins

(***************************************************************************)
(* Time zones (pytz) and the clock.                                        *)
(***************************************************************************)
USPacific == <<"U", "S", "/", "P", "a", "c", "i", "f", "i", "c">>
UTCZone == <<"U", "T", "C">>
BadZone == <<"X">>

\* the zone identifiers pytz.timezone() accepts
KnownZones == {USPacific, UTCZone}

SecondsPerDay == 24 * 60 * 60

\* tzinfo.utcoffset of a localized time in the zone: the offset actually in
\* force (Pacific Standard Time through the modelled window)
UtcOffset(zone) == IF zone = USPacific THEN -(8 * 60 * 60) ELSE 0

\* tzinfo.utcoffset of a time that was given the zone by replace(tzinfo=...):
\* pytz answers with the zone's first entry, its local mean time
\* (US/Pacific: LMT-1 day, 16:07:00)
DefaultOffset(zone) == IF zone = USPacific THEN -(7 * 60 * 60 + 53 * 60) ELSE 0

\* the calendar day (days since the epoch) that instant t falls on at offset off
LocalDate(t, off) == (t + off) \div SecondsPerDay

\* The instants the clock takes, in seconds: two groups a second apart, around
\* 23:53:00 and around 00:00:00 Pacific time at the start of day 2.
Midnight == 2 * SecondsPerDay + 8 * 60 * 60
LmtMidnight == Midnight - 7 * 60
Instants == {LmtMidnight - 1, LmtMidnight, Midnight - 1, Midnight, Midnight + 1}
FirstInstant == LmtMidnight - 1
Yesterday == FirstInstant - SecondsPerDay

\* the time memcache keeps an entry (the timezones list: twice as long)
CacheSeconds == 30

(***************************************************************************)
(* The datastore.  Each kind is the sequence of its entities in the order  *)
(* of their first put; an entity's key is its index.  A snapshot of an     *)
(* entity (what a query returns, what memcache pickles) is the entity's    *)
(* fields with its key; key 0 is an instance that was never put.           *)
(***************************************************************************)
DefaultTitle ==
  <<"D", "a", "i", "l", "y", " ", "C", "o", "u", "n", "t">>
DefaultDescription ==
  <<"T", "r", "a", "c", "k", " ", "a", "n", "d", " ", "g", "r", "a", "p",
    "h", " ", "a", "l", "l", " ", "o", "f", " ", "y", "o", "u", "r", " ",
    "d", "a", "i", "l", "y", " ", "b", "o", "d", "i", "l", "y", " ", "f",
    "u", "n", "c", "t", "i", "o", "n", "s", ".", " ", "S", "i", "g", "n",
    " ", "i", "n", " ", "t", "o", " ", "g", "e", "t", " ", "s", "t", "a",
    "r", "t", "e", "d", ".">>

\* class ConfigurationData
ConfigurationData(title, description) ==
  [key |-> 0, title |-> title, description |-> description,
   ga_account_id |-> None, last_modified |-> 0, last_modified_by |-> NoUser]

\* class ItemType (created: auto_now_add)
ItemType(name, active) == [name |-> name, active |-> active, created |-> now]

\* (mutant) the event is built without its item type
CountedItemUntyped(item_type, user) == [item_type |-> 0, user |-> user, date |-> now]

\* class CountedItem (date: auto_now_add)
CountedItem(item_type, user) == [item_type |-> item_type, user |-> user, date |-> now]

\* class UserOptions
UserOptions(user) == [key |-> 0, user |-> user, timezone |-> None]

Snapshot(kind, k) == [key |-> k] @@ kind[k]
Fields(e) == [f \in (DOMAIN e) \ {"key"} |-> e[f]]

\* Model.put(): insert an instance that has no key, overwrite the entity otherwise
Put(kind, e) ==
  IF e.key = 0 THEN Append(kind, Fields(e)) ELSE [kind EXCEPT ![e.key] = Fields(e)]
PutKey(kind, e) == IF e.key = 0 THEN Len(kind) + 1 ELSE e.key

\* (mutant) fetch without its limit
FetchAll(results, limit) == results

\* Query.fetch(limit) of a result list
Fetch(results, limit) ==
  SubSeq(results, 1, IF Len(results) < limit THEN Len(results) ELSE limit)

\* order('created') of item type keys: ascending creation time, equal times
\* by key
SortsBefore(j, k) ==
  \/ itemTypes[j].created < itemTypes[k].created
  \/ itemTypes[j].created = itemTypes[k].created /\ j < k

OrderByCreated(keys) == SortSeq(keys, SortsBefore)

ItemTypeKeys == [k \in 1..Len(itemTypes) |-> k]

\* db.Query(ItemType).order('created')
AllItemTypes == OrderByCreated(ItemTypeKeys)

\* db.Query(ItemType).order('created').filter('active =', True)
ActiveItemTypes ==
  LET Active(k) == itemTypes[k].active IN OrderByCreated(SelectSeq(ItemTypeKeys, Active))

\* (mutant) the query without its filter on active
ActiveTypesNamedAnyState(type_name) ==
  {k \in DOMAIN itemTypes : itemTypes[k].name = type_name}

\* db.Query(ItemType).filter('name = ', type_name).filter('active = ', True):
\* the query states no order, so get() may return any of the matches
ActiveTypesNamed(type_name) ==
  {k \in DOMAIN itemTypes : itemTypes[k].name = type_name /\ itemTypes[k].active}

\* db.Query(UserOptions).filter('user =', user)
OptionsOf(user) == {k \in DOMAIN userOptions : userOptions[k].user = user}

\* db.Query(ConfigurationData).order('-last_modified'): get() returns an entity
\* of the latest modification time
LatestConfigs ==
  {k \in DOMAIN configs :
     \A j \in DOMAIN configs : configs[j].last_modified <= configs[k].last_modified}

\* q.count() of CountedItem filtered by user, item_type and 'date >' / 'date >='
CountSince(user, item_type, start, inclusive) ==
  Cardinality({k \in DOMAIN countedItems :
                 /\ countedItems[k].user = user
                 /\ countedItems[k].item_type = item_type
                 /\ IF inclusive THEN countedItems[k].date >= start
                                 ELSE countedItems[k].date > start})

(***************************************************************************)
(* memcache: one optional value per key; the '%s-options' keys are one per *)
(* user.  Every entry is written with a time to live of 30 or 60 seconds.  *)
(***************************************************************************)
EmptyCache ==
  [config_data |-> None, active_types |-> None, timezones |-> None,
   options |-> [u \in Users |-> None]]

\* pytz.common_timezones as the JSON list UserTimeZonesHandler builds
TimezonesJson == <<USPacific, UTCZone>>

(***************************************************************************)
(* Requests.  A request is a handler, a method, the signed-in user (or     *)
(* NoUser) and its parameters, each absent (None) or Some(string).         *)
(***************************************************************************)
Procs == {"p1", "p2"}
SeqProcs == {"p1"}

NoParams == [type |-> None, name |-> None, timezone |-> None,
             title |-> None, description |-> None]

Tea == <<"t", "e", "a">>
Mud == <<"m", "u", "d">>
Amp == <<"&">>

TypeParams == {None, Some(Tea), Some(Mud), Some(xhtml_escape(Amp))}
NameParams == {None, Some(<<" ">>), Some(<<" ">> \o Tea), Some(Amp)}
TimezoneParams == {None, Some(UTCZone), Some(BadZone)}
TitleParams == {None, Some(<<"T">>)}

\* the methods the handler classes define
Implemented ==
  {<<"MainHandler", "GET">>, <<"AdminHandler", "GET">>, <<"AdminHandler", "POST">>,
   <<"CreateItemTypeHandler", "POST">>, <<"UserHandler", "GET">>,
   <<"CountItemHandler", "GET">>, <<"UserOptionsHandler", "GET">>,
   <<"UserOptionsHandler", "POST">>, <<"UserTimeZonesHandler", "GET">>}

Handlers == {hm[1] : hm \in Implemented}
Methods == {"GET", "POST"}

\* the parameters that handler and method read
ParamsOf(h, m) ==
  CASE h = "CountItemHandler" /\ m = "GET" ->
         {[NoParams EXCEPT !.type = t] : t \in TypeParams}
    [] h = "CreateItemTypeHandler" /\ m = "POST" ->
         {[NoParams EXCEPT !.name = n] : n \in NameParams}
    [] h = "UserOptionsHandler" /\ m = "POST" ->
         {[NoParams EXCEPT !.timezone = z] : z \in TimezoneParams}
    [] h = "AdminHandler" /\ m = "POST" ->
         {[NoParams EXCEPT !.title = t, !.description = d] :
            t \in TitleParams, d \in TitleParams}
    [] OTHER -> {NoParams}

Requests ==
  UNION {{[handler |-> h, method |-> m, user |-> u, params |-> a] :
            a \in ParamsOf(h, m)} :
         h \in Handlers, m \in Methods, u \in Users \cup {NoUser}}

NoRequest == [handler |-> "", method |-> "", user |-> NoUser, params |-> NoParams]

(***************************************************************************)
(* Responses.                                                              *)
(***************************************************************************)
NoResponse == [status |-> 0, kind |-> "", body |-> None]
\* self.redirect(url)
Redirect(url) == [status |-> 302, kind |-> "redirect", body |-> Some(url)]
\* raise tornado.web.HTTPError(code), or any other exception (500)
HTTPError(code) == [status |-> code, kind |-> "error", body |-> None]
\* self.write(chunk): tornado encodes the chunk with _utf8, which asserts that
\* it is a string, so write(None) raises
write(chunk) ==
  IF IsNone(chunk) THEN HTTPError(500)
  ELSE [status |-> 200, kind |-> "write", body |-> chunk]
\* self.render(template, **kwargs), with the config_data render_string adds
Rendered(template, data, config_data) ==
  [status |-> 200, kind |-> "render",
   body |-> Some([template |-> template, data |-> data, config_data |-> config_data])]

LoginUrl == "login"

(***************************************************************************)
(* The locals of a request.  The last eight are history                    *)
(* variables: the entities the request has put so far, by kind; whether    *)
(* the user had no UserOptions, stored or cached, when get_user_options    *)
(* was entered; the instant of 00:00 of the local date in the user's zone  *)
(* at the moment get_start_of_day_time read the clock; and, for each item  *)
(* type the dashboard has counted, the user's events of that type at or    *)
(* after that instant; the timezone of an options POST of the same user    *)
(* that had completed when get_user_options was entered; the item type of  *)
(* a create-item-type request that had completed when the dashboard read    *)
(* the 'active_types' cache entry; the ConfigurationData of an admin POST   *)
(* that had completed when get_current_config was entered; the number a    *)
(* count-item request of the same user had returned when the dashboard     *)
(* read the 'active_types' cache entry.                                    *)
(***************************************************************************)
NoPuts == [ConfigurationData |-> 0, ItemType |-> 0, CountedItem |-> 0, UserOptions |-> 0]

NoLocals ==
  [ret |-> "", template |-> "", kwargs |-> <<>>, options |-> None, data |-> None, item_type |-> 0,
   active_types |-> <<>>, i |-> 0, count_data |-> <<>>, start_of_day |-> 0,
   num |-> 0, arg |-> None, puts |-> NoPuts, fresh |-> FALSE, midnight |-> 0,
   since_midnight |-> <<>>, posted |-> None, created |-> 0,
   configured |-> None, counted |-> None]

\* The datastore as earlier requests left it: no item type yet, or the item
\* types of an earlier day.  No handler writes active = False (AdminHandler.post
\* leaves it as a TODO): an inactive item type was switched off in the
\* datastore console.
StoredItemTypes ==
  {<<>>,
   <<[name |-> Tea, active |-> TRUE, created |-> Yesterday]>>,
   <<[name |-> Tea, active |-> TRUE, created |-> Yesterday],
     [name |-> Mud, active |-> FALSE, created |-> Yesterday]>>}

Init ==
  /\ now = FirstInstant
  /\ configs = <<>>
  /\ itemTypes \in StoredItemTypes
  /\ countedItems = <<>>
  /\ userOptions = <<>>
  /\ memcache = EmptyCache
  /\ pc = [p \in Procs |-> "idle"]
  /\ req = [p \in Procs |-> NoRequest]
  /\ loc = [p \in Procs |-> NoLocals]
  /\ resp = [p \in Procs |-> NoResponse]
  /\ nreq = 0

Goto(p, label) == pc' = [pc EXCEPT ![p] = label]
Finish(p, r) == pc' = [pc EXCEPT ![p] = "done"] /\ resp' = [resp EXCEPT ![p] = r]
Counted(l, kind) == [l EXCEPT !.puts[kind] = @ + 1]

(***************************************************************************)
(* The access guards: what the wrapper does with request r.                *)
(***************************************************************************)
\* (mutant) the wrapper redirects whatever the method is
login_required_redirects(r) ==
  IF current_user(r) = NoUser THEN "redirect" ELSE "method"

login_required(r) ==
  IF current_user(r) = NoUser
  THEN IF r.method = "GET" THEN "redirect" ELSE "forbidden"
  ELSE "method"

\* (mutant) the wrapper asks for a signed-in user only
administrator_any_user(r) ==
  IF current_user(r) = NoUser
  THEN IF r.method = "GET" THEN "redirect" ELSE "forbidden"
  ELSE "method"

administrator(r) ==
  IF current_user(r) = NoUser
  THEN IF r.method = "GET" THEN "redirect" ELSE "forbidden"
  ELSE IF ~is_current_user_admin(r) THEN "forbidden"
  ELSE "method"

\* the decorator on each handler method
Decorator(h, m) ==
  CASE h \in {"AdminHandler", "CreateItemTypeHandler"} -> "administrator"
    [] h = "MainHandler" -> "none"
    [] OTHER -> "login_required"

Wrapped(r) ==
  /\ <<r.handler, r.method>> \in Implemented
  /\ Decorator(r.handler, r.method) # "none"

Guard(r) ==
  CASE Decorator(r.handler, r.method) = "administrator" -> administrator(r)
    [] Decorator(r.handler, r.method) = "login_required" -> login_required(r)
    [] OTHER -> "method"

\* the first step of each handler method
Entry(h, m) ==
  CASE h = "MainHandler" -> "main_get"
    [] h = "AdminHandler" /\ m = "GET" -> "admin_get"
    [] h = "AdminHandler" /\ m = "POST" -> "admin_post"
    [] h = "CreateItemTypeHandler" -> "create_post"
    [] h = "UserHandler" -> "user_get"
    [] h = "CountItemHandler" -> "count_get"
    [] h = "UserOptionsHandler" /\ m = "GET" -> "options_get"
    [] h = "UserOptionsHandler" /\ m = "POST" -> "options_post"
    [] h = "UserTimeZonesHandler" -> "timezones_get"

\* A request arrives at an idle process: tornado answers 405 for a method the
\* handler class does not define, else the decorator's wrapper runs.  At most
\* max requests arrive in one behaviour.
Arrive(p, r, max) ==
  /\ pc[p] = "idle"
  /\ nreq < max
  /\ nreq' = nreq + 1
  /\ req' = [req EXCEPT ![p] = r]
  /\ IF <<r.handler, r.method>> \notin Implemented
     THEN Finish(p, HTTPError(405))
     ELSE CASE Guard(r) = "redirect" -> Finish(p, Redirect(LoginUrl))
            [] Guard(r) = "forbidden" -> Finish(p, HTTPError(403))
            [] OTHER -> Goto(p, Entry(r.handler, r.method)) /\ UNCHANGED resp
  /\ UNCHANGED <<now, datastore, memcache, loc>>

Request(p, r) == Arrive(p, r, MaxRequests)

\* The response has been sent: the process is free for the next request.
Respond(p) ==
  /\ pc[p] = "done"
  /\ pc' = [pc EXCEPT ![p] = "idle"]
  /\ req' = [req EXCEPT ![p] = NoRequest]
  /\ loc' = [loc EXCEPT ![p] = NoLocals]
  /\ resp' = [resp EXCEPT ![p] = NoResponse]
  /\ UNCHANGED <<now, datastore, memcache, nreq>>

\* Time passes to the next instant.  Within a group no cache entry expires (the
\* group spans less than CacheSeconds); between the groups every entry does.
\* A request is over within CacheSeconds (App Engine's request deadline), so
\* none is in flight from one group to the next.
Tick ==
  \E t \in Instants :
    /\ t > now
    /\ \A u \in Instants : u > now => t <= u
    /\ now' = t
    /\ IF t - now < CacheSeconds
       THEN memcache' = memcache
       ELSE /\ \A p \in Procs : pc[p] \in {"idle", "done"}
            /\ t - now >= 2 * CacheSeconds
            /\ memcache' = EmptyCache
    /\ UNCHANGED <<datastore, pc, req, loc, resp, nreq>>

\* memcache.add(key, value, time): stores the value unless the key is present;
\* the outcomes are the caches that can result (a failed add stores nothing)
memcache_add(cache, absent) == IF absent THEN {cache, memcache} ELSE {memcache}

\* memcache.delete(key) and memcache.replace(key, value, time): the cache after
\* the call, or the cache as it was when the call fails
memcache_delete(cache) == {cache, memcache}
memcache_replace(cache, present) == IF present THEN {cache, memcache} ELSE {memcache}

(***************************************************************************)
(* self.render(template, **kwargs): render_string reads the configuration. *)
(***************************************************************************)
render(p, l, template, kwargs) ==
  /\ loc' = [loc EXCEPT ![p] = [l EXCEPT !.ret = "render", !.template = template,
                                          !.kwargs = kwargs]]
  /\ Goto(p, "config_get")
  /\ UNCHANGED resp

\* get_current_config returns data to its caller
ConfigReturn(p, l, data) ==
  IF l.ret = "render"
  THEN /\ Finish(p, Rendered(l.template, l.kwargs, data))
       /\ loc' = [loc EXCEPT ![p] = l]
  ELSE /\ loc' = [loc EXCEPT ![p] = [l EXCEPT !.data = Some(data)]]
       /\ Goto(p, l.ret)
       /\ UNCHANGED resp

\* (history) the ConfigurationData an admin POST has put, when another process
\* has completed one and not yet gone on to its next request
PostedConfig(p) ==
  LET posts == {q \in Procs \ {p} :
                  /\ pc[q] = "done"
                  /\ req[q].handler = "AdminHandler"
                  /\ req[q].method = "POST"
                  /\ loc[q].puts.ConfigurationData = 1}
  IN IF posts = {} THEN None ELSE loc[CHOOSE q \in posts : TRUE].data

\* get_current_config: data = memcache.get('config_data')
ConfigGet(p) ==
  /\ pc[p] = "config_get"
  /\ LET l == [loc[p] EXCEPT !.configured = PostedConfig(p)]
     IN IF ~IsNone(memcache.config_data)
        THEN ConfigReturn(p, l, Val(memcache.config_data))
        ELSE /\ loc' = [loc EXCEPT ![p] = l]
             /\ Goto(p, "config_query")
             /\ UNCHANGED resp
  /\ UNCHANGED <<now, datastore, memcache, req, nreq>>

\* data = db.Query(ConfigurationData).order('-last_modified').get()
ConfigQuery(p) ==
  /\ pc[p] = "config_query"
  /\ IF LatestConfigs = {}
     THEN ConfigReturn(p, loc[p], ConfigurationData(DefaultTitle, DefaultDescription))
     ELSE \E k \in LatestConfigs :
            /\ loc' = [loc EXCEPT ![p].data = Some(Snapshot(configs, k))]
            /\ Goto(p, "config_add")
            /\ UNCHANGED resp
  /\ UNCHANGED <<now, datastore, memcache, req, nreq>>

\* memcache.add('config_data', data, 30)
ConfigAdd(p) ==
  /\ pc[p] = "config_add"
  /\ memcache' \in memcache_add([memcache EXCEPT !.config_data = loc[p].data],
                                IsNone(memcache.config_data))
  /\ ConfigReturn(p, loc[p], Val(loc[p].data))
  /\ UNCHANGED <<now, datastore, req, nreq>>

(***************************************************************************)
(* get_user_options(user)                                                  *)
(***************************************************************************)
\* get_user_options returns options to its caller
OptionsReturn(p, l, options) ==
  CASE l.ret = "options_render" ->
         render(p, [l EXCEPT !.options = Some(options)], "options.html", <<>>)
    [] l.ret = "timezones_write" ->
         /\ loc' = [loc EXCEPT ![p] = [l EXCEPT !.options = Some(options)]]
         /\ Finish(p, write(Some([user_timezone |-> options.timezone,
                                  timezones |-> l.kwargs])))
    [] OTHER ->
         /\ loc' = [loc EXCEPT ![p] = [l EXCEPT !.options = Some(options)]]
         /\ Goto(p, l.ret)
         /\ UNCHANGED resp

\* (history) the timezone an options POST of p's user has set, when another
\* process has completed one and not yet gone on to its next request
PostedTimezone(p) ==
  LET posts == {q \in Procs \ {p} :
                  /\ pc[q] = "done"
                  /\ req[q].handler = "UserOptionsHandler"
                  /\ req[q].method = "POST"
                  /\ req[q].user = req[p].user
                  /\ resp[q].status = 302}
  IN IF posts = {} THEN None ELSE loc[CHOOSE q \in posts : TRUE].arg

\* options = memcache.get('%s-options' % user.email())
OptionsGet(p) ==
  /\ pc[p] = "options_cached"
  /\ LET user == req[p].user
         l == [loc[p] EXCEPT !.fresh = OptionsOf(user) = {} /\ IsNone(memcache.options[user]),
                             !.posted = PostedTimezone(p)]
     IN IF ~IsNone(memcache.options[user])
        THEN OptionsReturn(p, l, Val(memcache.options[user]))
        ELSE /\ loc' = [loc EXCEPT ![p] = l]
             /\ Goto(p, "options_query")
             /\ UNCHANGED resp
  /\ UNCHANGED <<now, datastore, memcache, req, nreq>>

\* options = db.Query(UserOptions).filter('user =', user).get(); when there is
\* none, a UserOptions with the default timezone is built
OptionsQuery(p) ==
  /\ pc[p] = "options_query"
  /\ LET user == req[p].user
     IN IF OptionsOf(user) = {}
        THEN /\ loc' = [loc EXCEPT ![p].options =
                          Some([UserOptions(user) EXCEPT !.timezone = Some(USPacific)])]
             /\ Goto(p, "options_put")
        ELSE \E k \in OptionsOf(user) :
               /\ loc' = [loc EXCEPT ![p].options = Some(Snapshot(userOptions, k))]
               /\ Goto(p, "options_add")
  /\ UNCHANGED <<now, datastore, memcache, req, resp, nreq>>

\* (mutant) the new UserOptions is returned without being put
OptionsPutSkipped(p) ==
  /\ pc[p] = "options_put"
  /\ Goto(p, "options_add")
  /\ UNCHANGED <<now, datastore, memcache, req, loc, resp, nreq>>

\* options.put() of the new UserOptions
OptionsPut(p) ==
  /\ pc[p] = "options_put"
  /\ LET options == Val(loc[p].options)
     IN /\ userOptions' = Put(userOptions, options)
        /\ loc' = [loc EXCEPT ![p] =
                     Counted([@ EXCEPT !.options =
                                Some([options EXCEPT !.key = PutKey(userOptions, options)])],
                             "UserOptions")]
  /\ Goto(p, "options_add")
  /\ UNCHANGED <<now, configs, itemTypes, countedItems, memcache, req, resp, nreq>>

\* (mutant) a failed memcache.add ends the request
OptionsAddFatal(p) ==
  /\ pc[p] = "options_add"
  /\ LET user == req[p].user
     IN memcache' \in memcache_add([memcache EXCEPT !.options[user] = loc[p].options],
                                   IsNone(memcache.options[user]))
  /\ IF memcache' = memcache
     THEN Finish(p, HTTPError(500)) /\ UNCHANGED loc
     ELSE OptionsReturn(p, loc[p], Val(loc[p].options))
  /\ UNCHANGED <<now, datastore, req, nreq>>

\* memcache.add('%s-options' % user.email(), options, 30)
OptionsAdd(p) ==
  /\ pc[p] = "options_add"
  /\ LET user == req[p].user
     IN memcache' \in memcache_add([memcache EXCEPT !.options[user] = loc[p].options],
                                   IsNone(memcache.options[user]))
  /\ OptionsReturn(p, loc[p], Val(loc[p].options))
  /\ UNCHANGED <<now, datastore, req, nreq>>

\* a call of get_user_options that returns to label ret
get_user_options(p, l, ret) ==
  /\ loc' = [loc EXCEPT ![p] = [l EXCEPT !.ret = ret]]
  /\ Goto(p, "options_cached")

(***************************************************************************)
(* get_start_of_day_time(user), after its call of get_user_options.        *)
(***************************************************************************)
\* pytz.timezone(zone): the zone, or UnknownTimeZoneError (None here) for an
\* identifier pytz does not know; it never returns None
pytz_timezone(zone) == IF zone \in KnownZones THEN Some(zone) ELSE None

\* current_time = datetime.datetime.now(tz=timezone); midnight of
\* current_time.date() with tzinfo replaced by the zone; astimezone(pytz.utc)
start_of_day(timezone) ==
  LocalDate(now, UtcOffset(timezone)) * SecondsPerDay - DefaultOffset(timezone)

\* the instant of 00:00 of the current local date in the zone
LocalMidnight(timezone) ==
  LocalDate(now, UtcOffset(timezone)) * SecondsPerDay - UtcOffset(timezone)

\* lines 129-137: the result, or None when pytz.timezone raises
get_start_of_day_time(options) ==
  LET timezone == pytz_timezone(Val(options.timezone))
  IN IF IsNone(timezone) THEN None ELSE Some(start_of_day(Val(timezone)))

(***************************************************************************)
(* MainHandler and AdminHandler.                                           *)
(***************************************************************************)
AdminLimit == 100
DashboardLimit == 5

MainGet(p) ==
  /\ pc[p] = "main_get"
  /\ IF current_user(req[p]) # NoUser
     THEN Finish(p, Redirect("/user")) /\ UNCHANGED loc
     ELSE render(p, loc[p], "main.html", <<>>)
  /\ UNCHANGED <<now, datastore, memcache, req, nreq>>

\* items = db.Query(ItemType).order('created').fetch(limit=100)
AdminGet(p) ==
  /\ pc[p] = "admin_get"
  /\ render(p, loc[p], "admin.html", Fetch(AllItemTypes, AdminLimit))
  /\ UNCHANGED <<now, datastore, memcache, req, nreq>>

\* (mutant) the POST is refused only when both parameters are missing
AdminPostNeedsEither(p) ==
  /\ pc[p] = "admin_post"
  /\ LET title == get_argument(req[p].params.title, None)
         description == get_argument(req[p].params.description, None)
     IN IF IsNone(title) /\ IsNone(description)
        THEN Finish(p, HTTPError(500)) /\ UNCHANGED loc
        ELSE /\ loc' = [loc EXCEPT ![p].ret = "admin_put"]
             /\ Goto(p, "config_get")
             /\ UNCHANGED resp
  /\ UNCHANGED <<now, datastore, memcache, req, nreq>>

\* lines 179-189: the parameters, then data = get_current_config()
AdminPost(p) ==
  /\ pc[p] = "admin_post"
  /\ LET title == get_argument(req[p].params.title, None)
         description == get_argument(req[p].params.description, None)
     IN IF IsNone(title) \/ IsNone(description)
        THEN Finish(p, HTTPError(500)) /\ UNCHANGED loc
        ELSE /\ loc' = [loc EXCEPT ![p].ret = "admin_put"]
             /\ Goto(p, "config_get")
             /\ UNCHANGED resp
  /\ UNCHANGED <<now, datastore, memcache, req, nreq>>

\* lines 190-195: the fields are set and data.put() (last_modified: auto_now)
AdminPut(p) ==
  /\ pc[p] = "admin_put"
  /\ LET data == [Val(loc[p].data) EXCEPT
                    !.title = Val(get_argument(req[p].params.title, None)),
                    !.description = Val(get_argument(req[p].params.description, None)),
                    !.ga_account_id = None,
                    !.last_modified_by = current_user(req[p]),
                    !.last_modified = now]
     IN /\ configs' = Put(configs, data)
        /\ loc' = [loc EXCEPT ![p] =
                     Counted([@ EXCEPT !.data = Some([data EXCEPT !.key = PutKey(configs, data)])],
                             "ConfigurationData")]
  /\ Goto(p, "admin_replace")
  /\ UNCHANGED <<now, itemTypes, countedItems, userOptions, memcache, req, resp, nreq>>

\* memcache.replace('config_data', data, 30); self.redirect('/admin')
AdminReplace(p) ==
  /\ pc[p] = "admin_replace"
  /\ memcache' \in memcache_replace([memcache EXCEPT !.config_data = loc[p].data],
                                    ~IsNone(memcache.config_data))
  /\ Finish(p, Redirect("/admin"))
  /\ UNCHANGED <<now, datastore, req, loc, nreq>>

(***************************************************************************)
(* CountItemHandler.get                                                    *)
(***************************************************************************)
\* lines 203-218: the type parameter and the query for the active item type
CountGet(p) ==
  /\ pc[p] = "count_get"
  /\ LET type_name == get_argument(req[p].params.type, None)
     IN IF IsNone(type_name) \/ ActiveTypesNamed(Val(type_name)) = {}
        THEN Finish(p, HTTPError(500)) /\ UNCHANGED loc
        ELSE \E item_type \in ActiveTypesNamed(Val(type_name)) :
               /\ loc' = [loc EXCEPT ![p].item_type = item_type]
               /\ Goto(p, "count_put")
               /\ UNCHANGED resp
  /\ UNCHANGED <<now, datastore, memcache, req, nreq>>

\* (mutant) the event is put for the administrator, whoever counts
CountPutForRoot(p) ==
  /\ pc[p] = "count_put"
  /\ countedItems' = Append(countedItems, CountedItem(loc[p].item_type, "root"))
  /\ get_user_options(p, Counted(loc[p], "CountedItem"), "count_start")
  /\ UNCHANGED <<now, configs, itemTypes, userOptions, memcache, req, resp, nreq>>

\* lines 220-222: counted_item.put(); then get_start_of_day_time calls
\* get_user_options
CountPut(p) ==
  /\ pc[p] = "count_put"
  /\ countedItems' = Append(countedItems, CountedItem(loc[p].item_type, current_user(req[p])))
  /\ get_user_options(p, Counted(loc[p], "CountedItem"), "count_start")
  /\ UNCHANGED <<now, configs, itemTypes, userOptions, memcache, req, resp, nreq>>

\* line 227: the rest of get_start_of_day_time(user)
CountStart(p) ==
  /\ pc[p] = "count_start"
  /\ LET start == get_start_of_day_time(Val(loc[p].options))
     IN IF IsNone(start)
        THEN Finish(p, HTTPError(500)) /\ UNCHANGED loc
        ELSE /\ loc' = [loc EXCEPT ![p].start_of_day = Val(start),
                                    ![p].midnight =
                                      LocalMidnight(Val(Val(loc[p].options).timezone))]
             /\ Goto(p, "count_query")
             /\ UNCHANGED resp
  /\ UNCHANGED <<now, datastore, memcache, req, nreq>>

\* the count-item query: filter('date >', start)
CountItemQuery(user, item_type, start) == CountSince(user, item_type, start, FALSE)

\* lines 224-231: num = q.count(); self.write('%d' % num)
CountQuery(p) ==
  /\ pc[p] = "count_query"
  /\ LET num == CountItemQuery(current_user(req[p]), loc[p].item_type, loc[p].start_of_day)
     IN /\ loc' = [loc EXCEPT ![p].num = num]
        /\ Finish(p, write(Some(num)))
  /\ UNCHANGED <<now, datastore, memcache, req, nreq>>

(***************************************************************************)
(* CreateItemTypeHandler.post                                              *)
(***************************************************************************)
\* lines 237-241: `if name:` holds for a string that is not empty; ItemType
\* requires a name, so putting an empty one raises
CreatePost(p) ==
  /\ pc[p] = "create_post"
  /\ LET name == get_argument(req[p].params.name, None)
     IN IF ~IsNone(name) /\ Val(name) # <<>>
        THEN LET escaped == xhtml_escape(Strip(Val(name)))
             IN IF escaped = <<>>
                THEN Finish(p, HTTPError(500)) /\ UNCHANGED <<loc, itemTypes>>
                ELSE /\ itemTypes' = Append(itemTypes, ItemType(escaped, TRUE))
                     /\ loc' = [loc EXCEPT ![p] =
                                  Counted([@ EXCEPT !.arg = Some(escaped),
                                                    !.item_type = Len(itemTypes) + 1],
                                          "ItemType")]
                     /\ Goto(p, "create_delete")
                     /\ UNCHANGED resp
        ELSE Finish(p, write(name)) /\ UNCHANGED <<loc, itemTypes>>
  /\ UNCHANGED <<now, configs, countedItems, userOptions, memcache, req, nreq>>

\* lines 242-243: memcache.delete('active_types'); self.write(name)
CreateDelete(p) ==
  /\ pc[p] = "create_delete"
  /\ memcache' \in memcache_delete([memcache EXCEPT !.active_types = None])
  /\ Finish(p, write(loc[p].arg))
  /\ UNCHANGED <<now, datastore, req, loc, nreq>>

(***************************************************************************)
(* UserHandler.get                                                         *)
(***************************************************************************)
\* the head of `for item_type in active_types`: get_start_of_day_time for the
\* next item type, or self.render('user.html', data=count_data) after the last
UserLoop(p, l) ==
  IF l.i > Len(l.active_types)
  THEN render(p, l, "user.html", l.count_data)
  ELSE get_user_options(p, l, "user_start") /\ UNCHANGED resp

\* (history) the item type a create-item-type request has put, when another
\* process has completed one and not yet gone on to its next request; else 0
CreatedType(p) ==
  LET creations == {q \in Procs \ {p} :
                      /\ pc[q] = "done"
                      /\ req[q].handler = "CreateItemTypeHandler"
                      /\ req[q].method = "POST"
                      /\ loc[q].puts.ItemType = 1}
  IN IF creations = {} THEN 0 ELSE loc[CHOOSE q \in creations : TRUE].item_type

\* (history) the number a count-item request of p's user has returned, when
\* another process has completed one and not yet gone on to its next request
CountedBefore(p) ==
  LET counts == {q \in Procs \ {p} :
                   /\ pc[q] = "done"
                   /\ req[q].handler = "CountItemHandler"
                   /\ req[q].user = req[p].user
                   /\ resp[q].status = 200}
  IN IF counts = {} THEN None ELSE resp[CHOOSE q \in counts : TRUE].body

\* active_types = memcache.get('active_types')
UserGet(p) ==
  /\ pc[p] = "user_get"
  /\ LET l == [loc[p] EXCEPT !.created = CreatedType(p), !.counted = CountedBefore(p)]
     IN IF ~IsNone(memcache.active_types)
        THEN UserLoop(p, [l EXCEPT !.active_types = Val(memcache.active_types), !.i = 1])
        ELSE /\ loc' = [loc EXCEPT ![p] = l]
             /\ Goto(p, "user_query")
             /\ UNCHANGED resp
  /\ UNCHANGED <<now, datastore, memcache, req, nreq>>

\* q = db.Query(ItemType).order('created').filter('active =', True);
\* active_types = q.fetch(limit=5)
UserQuery(p) ==
  /\ pc[p] = "user_query"
  /\ loc' = [loc EXCEPT ![p].active_types = Fetch(ActiveItemTypes, DashboardLimit)]
  /\ Goto(p, "user_add")
  /\ UNCHANGED <<now, datastore, memcache, req, resp, nreq>>

\* memcache.add('active_types', active_types, 30)
UserAdd(p) ==
  /\ pc[p] = "user_add"
  /\ memcache' \in memcache_add([memcache EXCEPT !.active_types = Some(loc[p].active_types)],
                                IsNone(memcache.active_types))
  /\ UserLoop(p, [loc[p] EXCEPT !.i = 1])
  /\ UNCHANGED <<now, datastore, req, nreq>>

\* line 271: the rest of get_start_of_day_time(user)
UserStart(p) ==
  /\ pc[p] = "user_start"
  /\ LET start == get_start_of_day_time(Val(loc[p].options))
     IN IF IsNone(start)
        THEN Finish(p, HTTPError(500)) /\ UNCHANGED loc
        ELSE /\ loc' = [loc EXCEPT ![p].start_of_day = Val(start),
                                    ![p].midnight =
                                      LocalMidnight(Val(Val(loc[p].options).timezone))]
             /\ Goto(p, "user_count")
             /\ UNCHANGED resp
  /\ UNCHANGED <<now, datastore, memcache, req, nreq>>

\* the dashboard query: filter('date >=', start)
DashboardQuery(user, item_type, start) == CountSince(user, item_type, start, TRUE)

\* lines 268-273: num = q.count(); count_data.append((item_type.name, num))
UserCount(p) ==
  /\ pc[p] = "user_count"
  /\ LET item_type == loc[p].active_types[loc[p].i]
         num == DashboardQuery(current_user(req[p]), item_type, loc[p].start_of_day)
     IN UserLoop(p, [loc[p] EXCEPT
                       !.count_data = Append(@, <<itemTypes[item_type].name, num>>),
                       !.i = @ + 1,
                       !.since_midnight =
                         Append(@, Cardinality({k \in DOMAIN countedItems :
                                    /\ countedItems[k].user = current_user(req[p])
                                    /\ countedItems[k].item_type = item_type
                                    /\ countedItems[k].date >= loc[p].midnight}))])
  /\ UNCHANGED <<now, datastore, memcache, req, nreq>>

(***************************************************************************)
(* UserOptionsHandler and UserTimeZonesHandler.                            *)
(***************************************************************************)
\* options = get_user_options(self.get_current_user()); self.render('options.html')
OptionsHandlerGet(p) ==
  /\ pc[p] = "options_get"
  /\ get_user_options(p, loc[p], "options_render")
  /\ UNCHANGED <<now, datastore, memcache, req, resp, nreq>>

\* lines 285-288: timezone = self.get_argument('timezone', 'US/Pacific');
\* options = get_user_options(user)
OptionsPost(p) ==
  /\ pc[p] = "options_post"
  /\ get_user_options(p, [loc[p] EXCEPT !.arg = get_argument(req[p].params.timezone,
                                                             Some(USPacific))],
                      "options_update")
  /\ UNCHANGED <<now, datastore, memcache, req, resp, nreq>>

\* lines 289-290: options.timezone = timezone; options.put()
OptionsUpdate(p) ==
  /\ pc[p] = "options_update"
  /\ LET options == [Val(loc[p].options) EXCEPT !.timezone = loc[p].arg]
     IN /\ userOptions' = Put(userOptions, options)
        /\ loc' = [loc EXCEPT ![p] =
                     Counted([@ EXCEPT !.options =
                                Some([options EXCEPT !.key = PutKey(userOptions, options)])],
                             "UserOptions")]
  /\ Goto(p, "options_delete")
  /\ UNCHANGED <<now, configs, itemTypes, countedItems, memcache, req, resp, nreq>>

\* lines 291-294: memcache.delete('%s-options' % user.email()); the redirect
OptionsDelete(p) ==
  /\ pc[p] = "options_delete"
  /\ memcache' \in memcache_delete([memcache EXCEPT !.options[req[p].user] = None])
  /\ Finish(p, Redirect("/user/options"))
  /\ UNCHANGED <<now, datastore, req, loc, nreq>>

\* timezones = memcache.get('timezones'), built from pytz.common_timezones on a
\* miss; then options = get_user_options(...)
TimezonesGet(p) ==
  /\ pc[p] = "timezones_get"
  /\ IF ~IsNone(memcache.timezones)
     THEN get_user_options(p, [loc[p] EXCEPT !.kwargs = Val(memcache.timezones)],
                           "timezones_write")
     ELSE /\ loc' = [loc EXCEPT ![p].kwargs = TimezonesJson]
          /\ Goto(p, "timezones_add")
  /\ UNCHANGED <<now, datastore, memcache, req, resp, nreq>>

\* memcache.add('timezones', timezones, 60)
TimezonesAdd(p) ==
  /\ pc[p] = "timezones_add"
  /\ memcache' \in memcache_add([memcache EXCEPT !.timezones = Some(loc[p].kwargs)],
                                IsNone(memcache.timezones))
  /\ get_user_options(p, loc[p], "timezones_write")
  /\ UNCHANGED <<now, datastore, req, resp, nreq>>

(***************************************************************************)
(* The specifications.                                                     *)
(***************************************************************************)
\* the steps of the handlers
Handle(p) ==
  \/ ConfigGet(p) \/ ConfigQuery(p) \/ ConfigAdd(p)
  \/ OptionsGet(p) \/ OptionsQuery(p) \/ OptionsPut(p) \/ OptionsAdd(p)
  \/ MainGet(p)
  \/ AdminGet(p) \/ AdminPost(p) \/ AdminPut(p) \/ AdminReplace(p)
  \/ CountGet(p) \/ CountPut(p) \/ CountStart(p) \/ CountQuery(p)
  \/ CreatePost(p) \/ CreateDelete(p)
  \/ UserGet(p) \/ UserQuery(p) \/ UserAdd(p) \/ UserStart(p) \/ UserCount(p)
  \/ OptionsHandlerGet(p) \/ OptionsPost(p) \/ OptionsUpdate(p) \/ OptionsDelete(p)
  \/ TimezonesGet(p) \/ TimezonesAdd(p)

\* Spec: requests of every kind, served one at a time, as time passes.
Next ==
  \/ Tick
  \/ \E p \in SeqProcs :
       \/ \E r \in Requests : Request(p, r)
       \/ Respond(p)
       \/ Handle(p)
Spec == Init /\ [][Next]_vars

\* SpecConcurrent: two requests served at once within one instant of the
\* clock; the requests are those that get past the guard of their handler.
GuardedRequests ==
  {r \in Requests : <<r.handler, r.method>> \in Implemented /\ Guard(r) = "method"}
NextConcurrent ==
  \E p \in Procs :
    \/ \E r \in GuardedRequests : Request(p, r)
    \/ Respond(p)
    \/ Handle(p)
SpecConcurrent == Init /\ [][NextConcurrent]_vars

\* SpecAdmin: the administrator lists and creates item types in a datastore
\* that holds up to MaxAdminTypes of them.  Keys are not in order of creation
\* (the datastore allocates ids as it likes): of the n stored item types, all
\* created on an earlier day, the one of the greatest key is the oldest.
StoredCreated(n, k) == Yesterday + (n - k)
AdminItemTypes(n) ==
  [k \in 1..n |-> [name |-> Tea, active |-> TRUE, created |-> StoredCreated(n, k)]]
AdminRequests ==
  {r \in Requests :
     /\ r.user \in Admins
     /\ \/ r.handler = "AdminHandler" /\ r.method = "GET"
        \/ r.handler = "CreateItemTypeHandler" /\ r.method = "POST"}
InitAdmin ==
  /\ now = FirstInstant
  /\ configs = <<>>
  /\ \E n \in 0..MaxAdminTypes : itemTypes = AdminItemTypes(n)
  /\ countedItems = <<>>
  /\ userOptions = <<>>
  /\ memcache = EmptyCache
  /\ pc = [p \in Procs |-> "idle"]
  /\ req = [p \in Procs |-> NoRequest]
  /\ loc = [p \in Procs |-> NoLocals]
  /\ resp = [p \in Procs |-> NoResponse]
  /\ nreq = 0
NextAdmin ==
  \E p \in SeqProcs :
    \/ \E r \in AdminRequests : Request(p, r)
    \/ Respond(p)
    \/ AdminGet(p) \/ ConfigGet(p) \/ ConfigQuery(p)
    \/ CreatePost(p) \/ CreateDelete(p)
SpecAdmin == InitAdmin /\ [][NextAdmin]_vars

\* SpecOptions: one user reads and posts the options, two requests at once,
\* within one instant of the clock.
OptionsRequests ==
  {r \in Requests :
     /\ r.user = "alice"
     /\ r.handler = "UserOptionsHandler"
     /\ r.params.timezone \in {None, Some(UTCZone)}}
NextOptions ==
  \E p \in Procs :
    \/ \E r \in OptionsRequests : Arrive(p, r, MaxRaceRequests)
    \/ Respond(p)
    \/ OptionsHandlerGet(p) \/ OptionsPost(p) \/ OptionsUpdate(p) \/ OptionsDelete(p)
    \/ OptionsGet(p) \/ OptionsQuery(p) \/ OptionsPut(p) \/ OptionsAdd(p)
    \/ ConfigGet(p) \/ ConfigQuery(p)
SpecOptions == Init /\ [][NextOptions]_vars

\* SpecDashboard: the administrator creates item types while a user loads the
\* dashboard, two requests at once, within one instant of the clock.
DashboardRequests ==
  {r \in Requests :
     \/ r.user = "alice" /\ r.handler = "UserHandler" /\ r.method = "GET"
     \/ /\ r.user = "root" /\ r.handler = "CreateItemTypeHandler" /\ r.method = "POST"
        /\ r.params.name = Some(Amp)}
NextDashboard ==
  \E p \in Procs :
    \/ \E r \in DashboardRequests : Arrive(p, r, MaxRaceRequests)
    \/ Respond(p)
    \/ CreatePost(p) \/ CreateDelete(p)
    \/ UserGet(p) \/ UserQuery(p) \/ UserAdd(p) \/ UserStart(p) \/ UserCount(p)
    \/ OptionsGet(p) \/ OptionsQuery(p) \/ OptionsPut(p) \/ OptionsAdd(p)
    \/ ConfigGet(p) \/ ConfigQuery(p)
SpecDashboard == Init /\ [][NextDashboard]_vars

\* SpecConfig: the administrator posts the configuration while the front page
\* is rendered, two requests at once, within one instant of the clock.
ConfigRequests ==
  {r \in Requests :
     \/ r.user = NoUser /\ r.handler = "MainHandler" /\ r.method = "GET"
     \/ /\ r.user = "root" /\ r.handler = "AdminHandler" /\ r.method = "POST"
        /\ ~IsNone(r.params.title) /\ ~IsNone(r.params.description)}
NextConfig ==
  \E p \in Procs :
    \/ \E r \in ConfigRequests : Arrive(p, r, MaxRaceRequests)
    \/ Respond(p)
    \/ MainGet(p)
    \/ AdminPost(p) \/ AdminPut(p) \/ AdminReplace(p)
    \/ ConfigGet(p) \/ ConfigQuery(p) \/ ConfigAdd(p)
\* the configuration as earlier requests left it: none, or the one an admin
\* POST of an earlier day put
StoredConfigs ==
  {<<>>,
   <<[Fields(ConfigurationData(<<"S">>, <<"S">>)) EXCEPT
        !.last_modified = Yesterday, !.last_modified_by = "root"]>>}
InitConfig ==
  /\ now = FirstInstant
  /\ configs \in StoredConfigs
  /\ itemTypes = <<>>
  /\ countedItems = <<>>
  /\ userOptions = <<>>
  /\ memcache = EmptyCache
  /\ pc = [p \in Procs |-> "idle"]
  /\ req = [p \in Procs |-> NoRequest]
  /\ loc = [p \in Procs |-> NoLocals]
  /\ resp = [p \in Procs |-> NoResponse]
  /\ nreq = 0
SpecConfig == InitConfig /\ [][NextConfig]_vars

\* SpecCount: one user counts one item type, each process serving one request,
\* as time passes.  The user has counted nothing so far, or has one event of
\* an earlier count-item request (which left the user's default options).
Tea1 == 1
CountRequests ==
  {r \in Requests :
     /\ r.user = "alice" /\ r.handler = "CountItemHandler" /\ r.method = "GET"
     /\ r.params.type = Some(Tea)}
StoredEvents(t) ==
  {<<>>} \cup {<<[item_type |-> Tea1, user |-> "alice", date |-> d]>> :
                 d \in {i \in Instants : i <= t}}
InitCount ==
  /\ now \in Instants
  /\ configs = <<>>
  /\ itemTypes = <<[name |-> Tea, active |-> TRUE, created |-> Yesterday]>>
  /\ countedItems \in StoredEvents(now)
  /\ userOptions = IF countedItems = <<>> THEN <<>>
                   ELSE <<[user |-> "alice", timezone |-> Some(USPacific)]>>
  /\ memcache = EmptyCache
  /\ pc = [p \in Procs |-> "idle"]
  /\ req = [p \in Procs |-> NoRequest]
  /\ loc = [p \in Procs |-> NoLocals]
  /\ resp = [p \in Procs |-> NoResponse]
  /\ nreq = 0
NextCount ==
  \/ Tick
  \/ \E p \in Procs :
       \/ \E r \in CountRequests : Arrive(p, r, MaxRaceRequests)
       \/ CountGet(p) \/ CountPut(p) \/ CountStart(p) \/ CountQuery(p)
       \/ OptionsGet(p) \/ OptionsQuery(p) \/ OptionsPut(p) \/ OptionsAdd(p)
SpecCount == InitCount /\ [][NextCount]_vars

\* SpecAgree: one user counts one item type and loads the dashboard, each
\* process serving one request, as time passes.
AgreeRequests ==
  CountRequests \cup
  {r \in Requests : r.user = "alice" /\ r.handler = "UserHandler" /\ r.method = "GET"}
NextAgree ==
  \/ Tick
  \/ \E p \in Procs :
       \/ \E r \in AgreeRequests : Arrive(p, r, MaxRaceRequests)
       \/ CountGet(p) \/ CountPut(p) \/ CountStart(p) \/ CountQuery(p)
       \/ UserGet(p) \/ UserQuery(p) \/ UserAdd(p) \/ UserStart(p) \/ UserCount(p)
       \/ OptionsGet(p) \/ OptionsQuery(p) \/ OptionsPut(p) \/ OptionsAdd(p)
       \/ ConfigGet(p) \/ ConfigQuery(p)
SpecAgree == InitCount /\ [][NextAgree]_vars

(***************************************************************************)
(* What the claims speak of.                                               *)
(***************************************************************************)
Done(p, handler, method) ==
  pc[p] = "done" /\ req[p].handler = handler /\ req[p].method = method

\* some active item type has this name
NamesActiveType(name) ==
  \E k \in DOMAIN itemTypes : itemTypes[k].name = name /\ itemTypes[k].active

\* the parameter as the handler reads it
Argument(param) == get_argument(param, None)

\* the user's events of the item type since the instant, the last event put
\* (the request's own, when requests are served one at a time) left out
EventsBefore(user, item_type, since) ==
  Cardinality({k \in 1..(Len(countedItems) - 1) :
                 /\ countedItems[k].user = user
                 /\ countedItems[k].item_type = item_type
                 /\ countedItems[k].date >= since})

\* C1: a count-item request of a signed-in user for the name of an active item
\* type writes exactly one CountedItem and returns the user's count of that
\* type since the user's local midnight as it was before the request, plus 1.
C1_CountItemReturnsPriorCountPlusOne ==
  \A p \in Procs :
    ( /\ Done(p, "CountItemHandler", "GET")
      /\ req[p].user \in Users
      /\ ~IsNone(Argument(req[p].params.type))
      /\ NamesActiveType(Val(Argument(req[p].params.type))) )
    => /\ resp[p].status = 200
       /\ loc[p].puts.CountedItem = 1
       /\ resp[p].body =
            Some(EventsBefore(req[p].user, loc[p].item_type, loc[p].midnight) + 1)

\* C2: a count-item request of a signed-in user whose type parameter is
\* absent, or names no item type, or names only inactive item types, ends in
\* HTTP 500 and has put no CountedItem.
C2_CountItemUnknownTypeFails ==
  \A p \in Procs :
    ( /\ Done(p, "CountItemHandler", "GET")
      /\ req[p].user \in Users
      /\ \/ IsNone(Argument(req[p].params.type))
         \/ ~NamesActiveType(Val(Argument(req[p].params.type))) )
    => /\ resp[p].status = 500
       /\ loc[p].puts.CountedItem = 0

\* a count-item request for the name of an inactive item type has ended
C2_Witness ==
  \E p \in Procs :
    /\ Done(p, "CountItemHandler", "GET")
    /\ req[p].user \in Users
    /\ req[p].params.type = Some(Mud)
    /\ \E k \in DOMAIN itemTypes : itemTypes[k].name = Mud /\ ~itemTypes[k].active
    /\ resp[p].status = 500

\* the steps inside get_user_options
InOptions == {"options_cached", "options_query", "options_put", "options_add"}

\* get_user_options has returned to request p, and the request has not yet
\* changed what it returned
OptionsReturned(p) ==
  /\ ~IsNone(loc[p].options)
  /\ pc[p] \notin InOptions \cup {"idle", "options_delete"}
  /\ ~Done(p, "UserOptionsHandler", "POST")

\* C3: when the user had no UserOptions, stored or cached, the call of
\* get_user_options has put exactly one UserOptions, the user's only one, with
\* timezone 'US/Pacific', and returns it as it is stored.
C3_FirstAccessCreatesDefaultOptions ==
  \A p \in SeqProcs :
    (OptionsReturned(p) /\ loc[p].fresh)
    => LET options == Val(loc[p].options)
       IN /\ options.user = req[p].user
          /\ options.timezone = Some(USPacific)
          /\ loc[p].puts.UserOptions = 1
          /\ Cardinality(OptionsOf(req[p].user)) = 1
          /\ options.key \in OptionsOf(req[p].user)
          /\ Snapshot(userOptions, options.key) = options

\* a first GET of /user/options has been answered
C3_Witness ==
  \E p \in SeqProcs :
    /\ Done(p, "UserOptionsHandler", "GET")
    /\ loc[p].fresh
    /\ resp[p].status = 200
    /\ userOptions # <<>>

\* C4: the datastore holds at most one UserOptions per user.
C4_AtMostOneUserOptionsPerUser ==
  \A u \in Users : Cardinality(OptionsOf(u)) <= 1

\* C5: a dashboard that is shown gives, for each item type it lists, the number
\* of the user's events of that type at or after the user's local midnight.
C5_DashboardCountsSinceLocalMidnight ==
  \A p \in Procs :
    (Done(p, "UserHandler", "GET") /\ resp[p].status = 200)
    => LET data == Val(resp[p].body).data
       IN /\ Len(data) = Len(loc[p].active_types)
          /\ \A i \in DOMAIN data :
               /\ data[i][1] = itemTypes[loc[p].active_types[i]].name
               /\ data[i][2] = loc[p].since_midnight[i]

\* C6: for a recognized zone, get_start_of_day_time returns the instant of
\* 00:00 of the current local date in that zone.
C6_StartOfDayIsLocalMidnight ==
  \A p \in Procs :
    pc[p] \in {"count_query", "user_count"} => loc[p].start_of_day = loc[p].midnight

\* C7: a dashboard or count-item request of a user whose stored timezone is not
\* a recognized zone completes normally once it has read the user's options.
C7_UnknownZoneFallsBackToDefault ==
  \A p \in Procs :
    ( /\ pc[p] = "done"
      /\ req[p].handler \in {"UserHandler", "CountItemHandler"}
      /\ ~IsNone(loc[p].options)
      /\ Val(Val(loc[p].options).timezone) \notin KnownZones )
    => resp[p].status = 200

\* C8: a create-item-type request of an administrator whose name parameter is
\* absent or empty puts no ItemType and is answered with an empty name.
C8_CreateWithoutNameEchoesEmpty ==
  \A p \in Procs :
    ( /\ Done(p, "CreateItemTypeHandler", "POST")
      /\ req[p].user \in Admins
      /\ \/ IsNone(req[p].params.name)
         \/ Val(Argument(req[p].params.name)) = <<>> )
    => /\ loc[p].puts.ItemType = 0
       /\ resp[p].status = 200
       /\ resp[p].body = Some(<<>>)

\* C9: the admin listing is in ascending order of creation, holds no item type
\* twice, holds every item type when there are at most AdminLimit of them, and
\* else holds AdminLimit of them, none newer than one it leaves out.
C9_AdminListsOldestFirstUpToLimit ==
  \A p \in SeqProcs :
    (Done(p, "AdminHandler", "GET") /\ resp[p].status = 200)
    => LET items == Val(resp[p].body).data
           listed == {items[i] : i \in DOMAIN items}
       IN /\ Len(items) <= AdminLimit
          /\ Len(items) = IF Len(itemTypes) < AdminLimit THEN Len(itemTypes) ELSE AdminLimit
          /\ listed \subseteq DOMAIN itemTypes
          /\ Cardinality(listed) = Len(items)
          /\ \A i \in DOMAIN items : \A j \in DOMAIN items :
               i < j => itemTypes[items[i]].created <= itemTypes[items[j]].created
          /\ \A k \in listed : \A j \in (DOMAIN itemTypes) \ listed :
               itemTypes[k].created <= itemTypes[j].created

\* the admin listing of a datastore of more than AdminLimit item types
C9_Witness ==
  \E p \in SeqProcs :
    /\ Done(p, "AdminHandler", "GET")
    /\ resp[p].status = 200
    /\ Len(itemTypes) > AdminLimit
    /\ Len(Val(resp[p].body).data) = AdminLimit

\* the answer of the guards to a request without a signed-in user
Refusal(r) == IF r.method = "GET" THEN Redirect(LoginUrl) ELSE HTTPError(403)

\* C10: a request without a signed-in user for a guarded handler method is
\* answered at once, GET by a redirect to the login URL and any other method
\* by 403; no step of the handler runs for it, and datastore and memcache stay
\* as they were.
C10_GuardsRefuseAnonymous ==
  [][\A p \in Procs :
       (Wrapped(req'[p]) /\ req'[p].user = NoUser)
       => /\ pc'[p] = "done"
          /\ resp'[p] = Refusal(req'[p])
          /\ loc'[p] = NoLocals
          /\ (pc[p] # "done" => datastore' = datastore /\ memcache' = memcache)]_vars

\* a POST without a signed-in user has been refused
C10_Witness ==
  \E p \in Procs :
    /\ pc[p] = "done"
    /\ Wrapped(req[p])
    /\ req[p].user = NoUser
    /\ req[p].method = "POST"
    /\ resp[p] = HTTPError(403)

\* the handler methods behind the administrator guard
AdminOnly(r) ==
  /\ <<r.handler, r.method>> \in Implemented
  /\ Decorator(r.handler, r.method) = "administrator"

\* C11: every step that changes the ItemType or the ConfigurationData records
\* is a put of a request of an administrator for a handler method behind the
\* administrator guard; a request of a signed-in user who is no administrator
\* for such a method is answered at once with 403, runs no step of the handler
\* and leaves datastore and memcache as they were.
C11_OnlyAdministratorsWrite ==
  [][/\ (itemTypes' # itemTypes \/ configs' # configs)
          => \E p \in Procs :
               /\ req[p].user \in Admins
               /\ AdminOnly(req[p])
               /\ loc'[p].puts # loc[p].puts
     /\ \A p \in Procs :
          (AdminOnly(req'[p]) /\ req'[p].user \in Users \ Admins)
          => /\ pc'[p] = "done"
             /\ resp'[p] = HTTPError(403)
             /\ loc'[p] = NoLocals
             /\ (pc[p] # "done" => datastore' = datastore /\ memcache' = memcache)]_vars

\* a create-item-type request of a signed-in user who is no administrator has
\* been refused, with a name that would have made an item type
C11_Witness ==
  \E p \in Procs :
    /\ Done(p, "CreateItemTypeHandler", "POST")
    /\ req[p].user \in Users \ Admins
    /\ req[p].params.name = Some(Amp)
    /\ resp[p] = HTTPError(403)

\* C12: while an options POST of user u stands completed, a call of
\* get_user_options(u) of another request of u (not itself an options POST)
\* that was entered after the POST completed returns the timezone the POST
\* set; and a completed options POST without a timezone parameter has put
\* 'US/Pacific'.
C12_OptionsReadsFollowPost ==
  \A p \in Procs : \A q \in Procs \ {p} :
    ( /\ Done(q, "UserOptionsHandler", "POST")
      /\ resp[q].status = 302
      /\ req[q].user \in Users )
    => /\ IsNone(req[q].params.timezone)
            => /\ loc[q].arg = Some(USPacific)
               /\ Val(loc[q].options).timezone = Some(USPacific)
       /\ ( /\ OptionsReturned(p)
            /\ req[p].user = req[q].user
            /\ req[p].method = "GET"
            /\ ~IsNone(loc[p].posted)
            /\ loc[p].posted = loc[q].arg )
          => Val(loc[p].options).timezone = loc[q].arg

\* the active item types put before item type k
ActiveBefore(k) == {j \in DOMAIN itemTypes : j < k /\ itemTypes[j].active}

\* C13: while a create-item-type request that has put an item type stands
\* completed, with fewer than DashboardLimit active item types before its
\* own, a dashboard request that read the 'active_types' cache entry after
\* the creation completed has the new item type in the list it shows.
C13_DashboardListsCreatedType ==
  \A p \in Procs : \A q \in Procs \ {p} :
    ( /\ Done(q, "CreateItemTypeHandler", "POST")
      /\ loc[q].puts.ItemType = 1
      /\ Cardinality(ActiveBefore(loc[q].item_type)) < DashboardLimit
      /\ req[p].handler = "UserHandler"
      /\ loc[p].i >= 1
      /\ loc[p].created = loc[q].item_type )
    => \E i \in DOMAIN loc[p].active_types : loc[p].active_types[i] = loc[q].item_type

\* C14: while an admin POST that has put the configuration stands completed,
\* a front page whose get_current_config was entered after the POST completed
\* is rendered with the title and the description the POST put; and a front
\* page rendered while no ConfigurationData is stored has the default title.
C14_ConfigReadsFollowPost ==
  \A p \in Procs :
    (Done(p, "MainHandler", "GET") /\ resp[p].status = 200)
    => LET data == Val(resp[p].body).config_data
       IN /\ configs = <<>> => data.title = DefaultTitle
          /\ \A q \in Procs \ {p} :
               ( /\ Done(q, "AdminHandler", "POST")
                 /\ loc[q].puts.ConfigurationData = 1
                 /\ loc[p].configured = loc[q].data )
               => /\ data.title = Val(loc[q].data).title
                  /\ data.description = Val(loc[q].data).description

\* the count-item requests that have arrived, and the rows that were stored
\* before any of them put its own (SpecCount: no process serves a second
\* request, so the locals of every request are kept)
Counting == {p \in Procs : req[p].handler = "CountItemHandler"}
NewRows ==
  LET RECURSIVE Sum(_)
      Sum(ps) == IF ps = {} THEN 0
                 ELSE LET q == CHOOSE q \in ps : TRUE
                      IN loc[q].puts.CountedItem + Sum(ps \ {q})
  IN Sum(Counting)
PriorRows == 1..(Len(countedItems) - NewRows)
PriorSince(user, item_type, since) ==
  Cardinality({j \in PriorRows :
                 /\ countedItems[j].user = user
                 /\ countedItems[j].item_type = item_type
                 /\ countedItems[j].date >= since})

\* C15: when the k count-item requests of a user for an active item type have
\* all completed, all on the local day that now is, each has put one
\* CountedItem (k new rows), the dashboard's count of the type is k more than
\* over the rows that were there before, and each request has returned at
\* least the user's count of that local day before the requests plus 1, and
\* at most that count plus k.
C15_ConcurrentCountsWithinBounds ==
  LET k == Cardinality(Counting)
      today == LocalMidnight(USPacific)
  IN ( /\ k >= 1
       /\ \A p \in Counting : pc[p] = "done" /\ req[p].user = "alice"
       /\ \A j \in DOMAIN countedItems : j \notin PriorRows => countedItems[j].date >= today )
     => /\ NewRows = k
        /\ DashboardQuery("alice", Tea1, start_of_day(USPacific))
             = PriorSince("alice", Tea1, start_of_day(USPacific)) + k
        /\ \A p \in Counting :
             /\ resp[p].status = 200
             /\ Val(resp[p].body) >= PriorSince("alice", Tea1, today) + 1
             /\ Val(resp[p].body) <= PriorSince("alice", Tea1, today) + k

\* every CountedItem references a stored ItemType and a user
EventsReferToTypes ==
  \A k \in DOMAIN countedItems :
    /\ countedItems[k].item_type \in DOMAIN itemTypes
    /\ countedItems[k].user \in Users

\* C16: no step removes or changes a stored CountedItem, no step removes an
\* ItemType, and after every step each CountedItem references a stored
\* ItemType and a user.
C16_EventsAndTypesOnlyGrow ==
  [][/\ Len(countedItems') >= Len(countedItems)
     /\ \A k \in DOMAIN countedItems : countedItems'[k] = countedItems[k]
     /\ Len(itemTypes') >= Len(itemTypes)
     /\ \A k \in DOMAIN itemTypes :
          /\ itemTypes'[k].name = itemTypes[k].name
          /\ itemTypes'[k].created = itemTypes[k].created
     /\ EventsReferToTypes']_vars

\* an event has been counted for an item type that a create-item-type request
\* added to the stored ones
C16_Witness ==
  /\ \E k \in DOMAIN countedItems :
       /\ countedItems[k].item_type > 1
       /\ itemTypes[countedItems[k].item_type].created >= FirstInstant
  /\ \E p \in Procs : Done(p, "CountItemHandler", "GET") /\ resp[p].status = 200

\* the steps that call memcache.add
Adding == {"config_add", "options_add", "user_add", "timezones_add"}

\* C17: whether memcache.add stores the entry or fails, the step that calls it
\* raises nothing and hands on the value that was fetched for the entry: the
\* configuration of get_current_config, the options of get_user_options, the
\* dashboard's active item types, the timezone list.
C17_FailedCacheAddIsHarmless ==
  [][\A p \in Procs :
       (pc[p] \in Adding /\ pc'[p] # pc[p])
       => /\ resp'[p].kind # "error"
          /\ pc[p] = "config_add"
               => IF loc[p].ret = "render"
                  THEN /\ pc'[p] = "done"
                       /\ Val(resp'[p].body).config_data = Val(loc[p].data)
                  ELSE pc'[p] = loc[p].ret /\ loc'[p].data = loc[p].data
          /\ pc[p] = "options_add"
               => /\ loc'[p].options = loc[p].options
                  /\ pc'[p] \in {loc[p].ret, "config_get", "done"}
                  /\ pc'[p] = "done"
                       => Val(resp'[p].body).user_timezone = Val(loc[p].options).timezone
          /\ pc[p] = "user_add"
               => /\ loc'[p].active_types = loc[p].active_types
                  /\ pc'[p] \in {"options_cached", "config_get"}
          /\ pc[p] = "timezones_add"
               => /\ loc'[p].kwargs = loc[p].kwargs
                  /\ pc'[p] = "options_cached"]_vars

\* the timezone list has been answered although neither memcache.add of the
\* request stored its entry (no entry has expired: the clock has not moved)
C17_Witness ==
  \E p \in Procs :
    /\ Done(p, "UserTimeZonesHandler", "GET")
    /\ resp[p].status = 200
    /\ Val(resp[p].body).timezones = TimezonesJson
    /\ Val(resp[p].body).user_timezone = Some(USPacific)
    /\ now = FirstInstant
    /\ nreq = 1
    /\ memcache = EmptyCache

\* an admin POST of an administrator that lacks the title or the description
LacksParameter(r) ==
  /\ r.handler = "AdminHandler" /\ r.method = "POST"
  /\ r.user \in Admins
  /\ (IsNone(r.params.title) \/ IsNone(r.params.description))

\* C18: the handler of an admin POST that lacks the title or the description
\* takes one step, to HTTP 500; while the request is served no
\* ConfigurationData is put or changed and the 'config_data' cache entry
\* stays as it was.
C18_IncompleteConfigPostFails ==
  [][\A p \in Procs :
       (LacksParameter(req[p]) /\ pc[p] = "admin_post")
       => /\ configs' = configs
          /\ memcache'.config_data = memcache.config_data
          /\ loc'[p].puts = NoPuts
          /\ \/ pc'[p] = "admin_post" /\ resp'[p] = NoResponse
             \/ pc'[p] = "done" /\ resp'[p] = HTTPError(500)]_vars

\* an admin POST with a title and without a description has been refused
C18_Witness ==
  \E p \in Procs :
    /\ Done(p, "AdminHandler", "POST")
    /\ req[p].user \in Admins
    /\ ~IsNone(req[p].params.title)
    /\ IsNone(req[p].params.description)
    /\ resp[p] = HTTPError(500)
    /\ loc[p].puts = NoPuts

\* C19: when a count-item request of a user has returned n for an item type,
\* and the user's dashboard, loaded after it on the same local day with no
\* event recorded since, shows the item type, then it shows n for it.
C19_CountItemAndDashboardAgree ==
  \A p \in Procs : \A q \in Procs \ {p} :
    ( /\ Done(p, "UserHandler", "GET") /\ resp[p].status = 200
      /\ Done(q, "CountItemHandler", "GET") /\ resp[q].status = 200
      /\ req[p].user = req[q].user
      /\ loc[p].counted = resp[q].body
      /\ loc[p].midnight = loc[q].midnight
      /\ NewRows = 1 )
    => \A i \in DOMAIN loc[p].active_types :
         loc[p].active_types[i] = loc[q].item_type
         => Val(resp[p].body).data[i][2] = Val(resp[q].body)

\* C20: while a count-item request of user u is served, with t the item type
\* its query returned, no step changes the number of events since any instant
\* of another user or of u for another item type, none writes an ItemType or
\* a ConfigurationData, and none writes a UserOptions but the put of u's
\* default when u has none.
C20_CountItemFrame ==
  [][\A p \in Procs :
       (req[p].handler = "CountItemHandler" /\ pc[p] \notin {"idle", "done"})
       => /\ \A v \in Users : \A k \in DOMAIN itemTypes : \A since \in Instants \cup {0} :
               (v # req[p].user \/ k # loc[p].item_type)
               => CountSince(v, k, since, TRUE)' = CountSince(v, k, since, TRUE)
          /\ itemTypes' = itemTypes
          /\ configs' = configs
          /\ \/ userOptions' = userOptions
             \/ /\ OptionsOf(req[p].user) = {}
                /\ userOptions' = Append(userOptions,
                                         [user |-> req[p].user, timezone |-> Some(USPacific)])]_vars

\* a count-item request has been answered while the datastore held an event
\* of another user for the same item type
C20_Witness ==
  \E p \in Procs :
    /\ Done(p, "CountItemHandler", "GET")
    /\ resp[p].status = 200
    /\ loc[p].puts.CountedItem = 1
    /\ \E j \in DOMAIN countedItems :
         /\ countedItems[j].user # req[p].user
         /\ countedItems[j].item_type = loc[p].item_type

====
